---- MODULE Spec2Model ----
(***************************************************************************)
(* Model of the board crate: Position (src/src/position.rs), Dimension,    *)
(* DimensionIterator, Board and BoardIter (src/src/lib.rs).                *)
(*                                                                         *)
(* Spec     : a Board under set_field / clear_field / clear / get_field.   *)
(* SpecDim  : a Dimension under contains_position / resize, then iterated  *)
(*            by BoardIter (which wraps DimensionIterator).                *)
(* FairSpecDim : SpecDim with the caller driving the iterator to its end.  *)
(***************************************************************************)
EXTENDS Integers, Sequences, FiniteSets, TLC

VARIABLES
    resizeable,       \* Board::resizeable
    dimension,        \* Board::dimension (a Dimension: origin, max)
    values,           \* Board::values (HashMap<Position, T>)
    call,             \* the last operation called, with its arguments
    ret,              \* what the last operation returned (an Option)
    prev,             \* dimension and values before the last operation
    overflow_checks,  \* build profile: TRUE panics on isize overflow, FALSE wraps
    iter,             \* Option<DimensionIterator>: origin, current_position, max_position
    yielded,          \* the items next() has returned Some(..) for, in order
    status            \* "idle", "running", "none" (next() returned None), "panic"

vars == <<resizeable, dimension, values, call, ret, prev,
          overflow_checks, iter, yielded, status>>

-----------------------------------------------------------------------------
(* Bounds of the model *)

\* inputs' coordinates range over -1 .. MaxCoord
MaxCoord == 0
\* widths and heights given to the constructors range over 1 .. MaxSize
MaxSize == 2
\* the caller stores at most MaxStored values at a time
MaxStored == 2
\* isize and usize scaled down to IsizeBits bits (two's complement)
IsizeBits == 4

Coords == (-1)..MaxCoord
Sizes == 1..MaxSize
\* T is generic and never inspected: two distinct values stand for it
Values == {"a", "b"}

-----------------------------------------------------------------------------
(* Option<T> *)

None == <<>>
Some(v) == <<v>>

-----------------------------------------------------------------------------
(* isize / usize arithmetic *)

IsizeMax == 2^(IsizeBits - 1) - 1
IsizeMin == -(2^(IsizeBits - 1))

\* the two's complement value an out-of-range isize result wraps to
WrapIsize(n) == ((n - IsizeMin) % 2^IsizeBits) + IsizeMin

\* `n as usize`
AsUsize(n) == n % 2^IsizeBits

-----------------------------------------------------------------------------
(* Position *)

new(x, y) == [x |-> x, y |-> y]

Positions == {new(x, y) : x \in Coords, y \in Coords}

\* Position::default(), derived: (0, 0)
default == new(0, 0)

\* Add<(usize, usize)> for Position
add(self, rhs) == new(self.x + rhs[1], self.y + rhs[2])

\* The derived PartialOrd / Ord of Position: lexicographic, x then y.
lt(a, b) == \/ a.x < b.x
            \/ a.x = b.x /\ a.y < b.y

le(a, b) == lt(a, b) \/ a = b

gt(a, b) == lt(b, a)

-----------------------------------------------------------------------------
(* Dimension *)

\* from_origin panics on width = 0 or height = 0 and returns nothing then: the
\* dimensions that exist come from widths and heights >= 1 (Sizes)
from_origin(origin, w, h) == [origin |-> origin, max |-> add(origin, <<w - 1, h - 1>>)]

width(self) == AsUsize(self.max.x - self.origin.x + 1)

height(self) == AsUsize(self.max.y - self.origin.y + 1)

field_amount(self) == width(self) * height(self)

contains_position(self, position) ==
    le(self.origin, position) /\ le(position, self.max)

resize(self, position) ==
    LET d1 == IF lt(position, self.origin)
              THEN [self EXCEPT !.origin = position]
              ELSE self
    IN  IF gt(position, d1.max)
        THEN [d1 EXCEPT !.max = position]
        ELSE d1

-----------------------------------------------------------------------------
(* HashMap<Position, T> *)

EmptyMap == [q \in {} |-> 0]

HashMapGet(m, p) == IF p \in DOMAIN m THEN Some(m[p]) ELSE None

\* a map that keeps the value a key already has
InsertIfAbsent(m, p, v) == [q \in (DOMAIN m) \cup {p} |-> IF q \in DOMAIN m THEN m[q] ELSE v]

HashMapInsert(m, p, v) == [q \in (DOMAIN m) \cup {p} |-> IF q = p THEN v ELSE m[q]]

\* a remove that returns the value but leaves the entry in the map
RemoveKeepsEntry(m, p) == m

HashMapRemove(m, p) == [q \in (DOMAIN m) \ {p} |-> m[q]]

-----------------------------------------------------------------------------
(* Board *)

NoCall == [op |-> "new", position |-> default, value |-> "a"]

\* the origins the constructors are given: Position::default() (Dimension::new)
\* and the lowest corner of the inputs' grid
Origins == {default, new(-1, -1)}

\* Board::new / Board::new_resizeable on Dimension::from_origin(origin, w, h)
Init ==
    /\ resizeable \in BOOLEAN
    /\ \E origin \in Origins, w \in Sizes, h \in Sizes :
           dimension = from_origin(origin, w, h)
    /\ values = EmptyMap
    /\ call = NoCall
    /\ ret = None
    /\ prev = [dimension |-> dimension, values |-> values]
    /\ overflow_checks = TRUE
    /\ iter = None
    /\ yielded = <<>>
    /\ status = "idle"

IterUnchanged == UNCHANGED <<overflow_checks, iter, yielded, status>>

Record(op, position, value) ==
    /\ call' = [op |-> op, position |-> position, value |-> value]
    /\ prev' = [dimension |-> dimension, values |-> values]

\* get_field takes &self and only reads: a function of the state
get_field(position) == HashMapGet(values, position)

\* the dimension and the mapping set_field leaves behind
SetFieldResult(position, value) ==
    IF contains_position(dimension, position)
    THEN [dimension |-> dimension,
          values |-> HashMapInsert(values, position, value)]
    ELSE IF resizeable
    THEN [dimension |-> resize(dimension, position),
          values |-> HashMapInsert(values, position, value)]
    ELSE [dimension |-> dimension, values |-> values]

set_field(position, value) ==
    /\ Cardinality(DOMAIN SetFieldResult(position, value).values) <= MaxStored
    /\ dimension' = SetFieldResult(position, value).dimension
    /\ values' = SetFieldResult(position, value).values
    /\ ret' = None
    /\ Record("set_field", position, value)
    /\ UNCHANGED resizeable
    /\ IterUnchanged

clear_field(position) ==
    /\ values' = HashMapRemove(values, position)
    /\ ret' = HashMapGet(values, position)
    /\ Record("clear_field", position, "a")
    /\ UNCHANGED <<resizeable, dimension>>
    /\ IterUnchanged

clear ==
    /\ values' = EmptyMap
    /\ ret' = None
    /\ Record("clear", default, "a")
    /\ UNCHANGED <<resizeable, dimension>>
    /\ IterUnchanged

Next ==
    \/ \E p \in Positions, v \in Values : set_field(p, v)
    \/ \E p \in Positions : clear_field(p)
    \/ clear

Spec == Init /\ [][Next]_vars

-----------------------------------------------------------------------------
(* The board's dimension, iterated *)

\* isize `n + 1`: [panic |-> TRUE] when the build checks overflow and the sum
\* leaves the isize range, the wrapped sum otherwise
AddOne(n) ==
    IF n + 1 > IsizeMax
    THEN IF overflow_checks
         THEN [panic |-> TRUE, value |-> n]
         ELSE [panic |-> FALSE, value |-> WrapIsize(n + 1)]
    ELSE [panic |-> FALSE, value |-> n + 1]

\* DimensionIterator::new
DimensionIteratorNew(d) ==
    [origin |-> d.origin, current_position |-> None, max_position |-> d.max]

\* an iterator that completes a row (x increasing) before y advances
RowMajorNext(it) ==
    LET pos == it.current_position[1]
        nxt == IF pos.x < it.max_position.x
               THEN new(pos.x + 1, pos.y)
               ELSE new(it.origin.x, WrapIsize(pos.y + 1))
    IN  IF it.current_position = None
        THEN [it |-> [it EXCEPT !.current_position = Some(it.origin)],
              out |-> Some(it.origin), panic |-> FALSE]
        ELSE IF pos = it.max_position
        THEN [it |-> it, out |-> None, panic |-> FALSE]
        ELSE [it |-> [it EXCEPT !.current_position = Some(nxt)],
              out |-> Some(nxt), panic |-> FALSE]

\* DimensionIterator::next on the iterator `it`: the iterator it leaves, what
\* it returns, and whether it panicked instead of returning
DimensionIteratorNext(it) ==
    LET x_max == it.max_position.x
        y_max == it.max_position.y
        pos == it.current_position[1]
    IN  IF it.current_position = None
        THEN [it |-> [it EXCEPT !.current_position = Some(it.origin)],
              out |-> Some(it.origin), panic |-> FALSE]
        ELSE IF pos = it.max_position
        THEN [it |-> it, out |-> None, panic |-> FALSE]
        ELSE IF pos.y = y_max /\ pos.x < x_max
        THEN [it |-> [it EXCEPT !.current_position = Some(new(pos.x + 1, 0))],
              out |-> Some(new(pos.x + 1, 0)), panic |-> FALSE]
        ELSE IF AddOne(pos.y).panic
        THEN [it |-> it, out |-> None, panic |-> TRUE]
        ELSE [it |-> [it EXCEPT !.current_position =
                                    Some(new(pos.x, AddOne(pos.y).value))],
              out |-> Some(new(pos.x, AddOne(pos.y).value)), panic |-> FALSE]

\* A board built by new_resizeable on from_origin(origin, w, h), holding
\* nothing or one value at its origin, in a debug or a release build.
InitDim ==
    /\ resizeable = TRUE
    /\ \E origin \in Positions, w \in Sizes, h \in Sizes :
           dimension = from_origin(origin, w, h)
    /\ values \in {EmptyMap, HashMapInsert(EmptyMap, dimension.origin, "a")}
    /\ call = NoCall
    /\ ret = None
    /\ prev = [dimension |-> dimension, values |-> values]
    /\ overflow_checks \in BOOLEAN
    /\ iter = None
    /\ yielded = <<>>
    /\ status = "idle"

\* Dimension::contains_position(position)
ContainsPosition(position) ==
    /\ status = "idle"
    /\ ret' = Some(contains_position(dimension, position))
    /\ Record("contains_position", position, "a")
    /\ UNCHANGED <<resizeable, dimension, values>>
    /\ IterUnchanged

\* Dimension::resize(position), called directly or by set_field on a
\* resizeable board (there only with a position contains_position rejects; on
\* any other position resize changes nothing)
Resize(position) ==
    /\ status = "idle"
    /\ dimension' = resize(dimension, position)
    /\ ret' = None
    /\ Record("resize", position, "a")
    /\ UNCHANGED <<resizeable, values>>
    /\ IterUnchanged

\* Board::iter, which holds Dimension::iter
Iter ==
    /\ status = "idle"
    /\ iter' = Some(DimensionIteratorNew(dimension))
    /\ yielded' = <<>>
    /\ status' = "running"
    /\ ret' = None
    /\ Record("iter", default, "a")
    /\ UNCHANGED <<resizeable, dimension, values, overflow_checks>>

\* BoardIter::next, which calls DimensionIterator::next
IterNext ==
    /\ status \in {"running", "none"}
    /\ LET r == DimensionIteratorNext(iter[1])
       IN  /\ iter' = Some(r.it)
           /\ status' = IF r.panic THEN "panic"
                        ELSE IF r.out = None THEN "none" ELSE "running"
           /\ ret' = IF r.out = None
                     THEN None
                     ELSE Some(<<r.out[1], HashMapGet(values, r.out[1])>>)
           /\ yielded' = IF r.out = None
                         THEN yielded
                         ELSE Append(yielded, <<r.out[1], HashMapGet(values, r.out[1])>>)
    /\ Record("next", default, "a")
    /\ UNCHANGED <<resizeable, dimension, values, overflow_checks>>

NextDim ==
    \/ \E p \in Positions : ContainsPosition(p)
    \/ \E p \in Positions : Resize(p)
    \/ Iter
    \/ IterNext

SpecDim == InitDim /\ [][NextDim]_vars

\* the caller keeps calling next() until it returns None
FairSpecDim == SpecDim /\ WF_vars(Iter) /\ WF_vars(IterNext)

-----------------------------------------------------------------------------
(* The rectangle of a dimension, as the claims state it *)

InRectangle(d, p) ==
    /\ d.origin.x <= p.x /\ p.x <= d.max.x
    /\ d.origin.y <= p.y /\ p.y <= d.max.y

Min(a, b) == IF a <= b THEN a ELSE b
Max(a, b) == IF a >= b THEN a ELSE b

RectangleOf(d) == {new(x, y) : x \in d.origin.x .. d.max.x, y \in d.origin.y .. d.max.y}

YieldedPositions == [i \in 1..Len(yielded) |-> yielded[i][1]]

-----------------------------------------------------------------------------
(* Claims *)

\* C1: after any sequence of set_field, clear_field and clear on a board, every
\* key of the value mapping lies inside the rectangle of the board's dimension.
C1_KeysInsideRectangle ==
    \A k \in DOMAIN values : InRectangle(dimension, k)

\* C2: contains_position(p) returns true if and only if p lies inside the
\* rectangle origin.x <= p.x <= max.x, origin.y <= p.y <= max.y.
C2_ContainsIsRectangle ==
    call.op = "contains_position" =>
        ret = Some(InRectangle(dimension, call.position))

\* C3: resize(p) sets origin to the component-wise minimum of the old origin and
\* p and max to the component-wise maximum of the old max and p; no origin
\* coordinate increases, no max coordinate decreases, and p and the old
\* rectangle are inside the new rectangle.
C3_ResizeComponentWise ==
    call.op = "resize" =>
        /\ dimension.origin = new(Min(prev.dimension.origin.x, call.position.x),
                                  Min(prev.dimension.origin.y, call.position.y))
        /\ dimension.max = new(Max(prev.dimension.max.x, call.position.x),
                               Max(prev.dimension.max.y, call.position.y))
        /\ InRectangle(dimension, call.position)
        /\ \A q \in RectangleOf(prev.dimension) : InRectangle(dimension, q)

\* C4: every dimension reached from from_origin (width, height >= 1) by resize
\* calls has origin.x <= max.x and origin.y <= max.y, so width() and height()
\* are at least 1.
C4_DimensionNonEmpty ==
    /\ dimension.origin.x <= dimension.max.x
    /\ dimension.origin.y <= dimension.max.y
    /\ width(dimension) >= 1
    /\ height(dimension) >= 1

\* a dimension from_origin returns for some width, height >= 1, iterated
IteratingFromOrigin ==
    /\ iter # None
    /\ iter[1].origin.x <= iter[1].max_position.x
    /\ iter[1].origin.y <= iter[1].max_position.y

IterDimension == [origin |-> iter[1].origin, max |-> iter[1].max_position]

\* C5: the iterator of from_origin(origin, width, height) yields exactly
\* field_amount() = width * height positions: each position of the rectangle
\* once, none outside it, the first being origin and the last being max.
C5_IterYieldsRectangle ==
    IteratingFromOrigin =>
        /\ \A i \in 1..Len(yielded) : InRectangle(IterDimension, YieldedPositions[i])
        /\ \A i, j \in 1..Len(yielded) :
               YieldedPositions[i] = YieldedPositions[j] => i = j
        /\ Len(yielded) >= 1 => YieldedPositions[1] = IterDimension.origin
        /\ status # "panic"
        /\ status = "none" =>
               /\ Len(yielded) = field_amount(IterDimension)
               /\ {YieldedPositions[i] : i \in 1..Len(yielded)} = RectangleOf(IterDimension)
               /\ YieldedPositions[Len(yielded)] = IterDimension.max

C7_IterationEnds == <>(status = "none")

\* C8: on a fixed board set_field(p, v) with p outside the rectangle is a no-op:
\* mapping and dimension unchanged, get_field(p) absent; and a fixed board's
\* dimension never changes.
C8_FixedOutOfBoundsNoOp ==
    /\ (call.op = "set_field" /\ ~resizeable /\ ~InRectangle(prev.dimension, call.position)) =>
           /\ values = prev.values
           /\ dimension = prev.dimension
           /\ get_field(call.position) = None
    /\ ~resizeable => dimension = prev.dimension

\* C9: on a resizeable board set_field(p, v) with p outside the rectangle grows
\* the dimension so that p is inside the rectangle afterwards, the origin
\* unchanged on the axes where p is not below it, and get_field(p) returns v.
C9_ResizeableGrows ==
    (call.op = "set_field" /\ resizeable /\ ~InRectangle(prev.dimension, call.position)) =>
        /\ InRectangle(dimension, call.position)
        /\ call.position.x >= prev.dimension.origin.x =>
               dimension.origin.x = prev.dimension.origin.x
        /\ call.position.y >= prev.dimension.origin.y =>
               dimension.origin.y = prev.dimension.origin.y
        /\ get_field(call.position) = Some(call.value)

\* C10: after set_field(p, v), get_field(p) returns v, for p inside the rectangle
\* on a fixed board and for every p on a resizeable board; a value already
\* stored at p is overwritten, and the values at other positions are unchanged.
C10_SetThenGet ==
    (call.op = "set_field" /\ (resizeable \/ InRectangle(prev.dimension, call.position))) =>
        /\ get_field(call.position) = Some(call.value)
        /\ \A q \in (DOMAIN values \cup DOMAIN prev.values) \ {call.position} :
               HashMapGet(values, q) = HashMapGet(prev.values, q)

\* set_field has overwritten another value at p while a value is stored elsewhere
C10_Witness ==
    /\ call.op = "set_field"
    /\ resizeable \/ InRectangle(prev.dimension, call.position)
    /\ call.position \in DOMAIN prev.values
    /\ prev.values[call.position] # call.value
    /\ \E q \in DOMAIN prev.values : q # call.position

\* C11: clear_field(p) on a position with a stored value returns that value and
\* get_field(p) is absent afterwards; on a position with no stored value it
\* returns absent and leaves the board unchanged; in both cases the dimension
\* is unchanged and the values at other positions are kept.
C11_ClearField ==
    call.op = "clear_field" =>
        /\ ret = HashMapGet(prev.values, call.position)
        /\ get_field(call.position) = None
        /\ call.position \notin DOMAIN prev.values =>
               (ret = None /\ values = prev.values)
        /\ dimension = prev.dimension
        /\ \A q \in (DOMAIN values \cup DOMAIN prev.values) \ {call.position} :
               HashMapGet(values, q) = HashMapGet(prev.values, q)

\* clear_field has removed and returned a stored value while another position
\* holds a value
C11_Witness ==
    /\ call.op = "clear_field"
    /\ call.position \in DOMAIN prev.values
    /\ ret = Some(prev.values[call.position])
    /\ \E q \in DOMAIN values : q # call.position

====
